---- MODULE Spec2Model ----
(***************************************************************************)
(* State-machine model of WebsocketJsonRpc (src/src/websocket-rpc.ts,      *)
(* the class that starts at line 586): connection lifecycle, request       *)
(* correlation with timeouts, offline queue, heartbeat, reconnection and   *)
(* the subscription registry.                                              *)
(*                                                                         *)
(* Every handler of the class is one action.  A handler is a sequence of   *)
(* statements, some of which can throw (WebSocket.send on a socket that is *)
(* still CONNECTING), so the handlers are written as functions on a record *)
(* of the object's fields: field "threw" says that an exception is         *)
(* propagating and makes every later statement a no-op, exactly as the     *)
(* statements after a throw are skipped.                                   *)
(*                                                                         *)
(* Strings that the code joins with ':' and splits again are modelled as   *)
(* the sequence of their ':'-free segments: "c1" is <<"c1">>, "" is <<"">>,*)
(* "c1::a1" is <<"c1", "", "a1">>.  Joining with ':' is concatenation of   *)
(* the sequences and split(':') returns the segments.                      *)
(***************************************************************************)
EXTENDS Integers, Sequences, FiniteSets, TLC

\* ---------------------------------------------------------------- bounds
MaxCalls == 2
MaxSubs == 2
MaxRegs == 3
MaxSockets == 3
MaxRetriesOpt == 1

\* ------------------------------------------------------------- constants
\* request_id of the subscription frames: this.id, one uuid per client
SubId == 0
\* a frame or message that carries no request_id
NoId == -1

VARIABLES
    opts,            \* this.options: autoReconnect, maxRetries
    isConnected,     \* this.isConnected
    isConnecting,    \* this.isConnecting
    retryCount,      \* this.retryCount
    socks,           \* every WebSocket created so far, by readyState; this.ws is the last
    reconnectTimers, \* setTimeout(() => this.connect()) timers that have not fired yet
    heartbeatTimer,  \* this.heartbeatTimer holds an interval handle
    heartbeats,      \* live setInterval heartbeat timers
    pending,         \* keys of this.pending
    timers,          \* live request timers, per request id
    queue,           \* this.queue, request ids in order
    tableSubs,       \* this.tableSubs, a Map in insertion order: <<[key, cbs], ...>>
    traceSubs,       \* this.traceSubs, likewise
    disposers,       \* the disposer closures handed out so far, and whether each has run
    issued,          \* number of call() invocations so far, also the last uuid drawn
    settles,         \* per call: the continuation invocations, in order
    dispatched,      \* per call: number of sendToWs invocations
    clobbered,       \* some sendToWs overwrote a live pending entry
    received,        \* the server: ids of the call envelopes that reached it
    last             \* what the last handler did: op, arguments, frames, callbacks

vars == <<opts, isConnected, isConnecting, retryCount, socks, reconnectTimers,
          heartbeatTimer, heartbeats, pending, timers, queue, tableSubs,
          traceSubs, disposers, issued, settles, dispatched, clobbered,
          received, last>>

\* ---------------------------------------------------------------- inputs
CallIds == 1..MaxCalls
Callbacks == {"f", "g"}
\* callbacks whose body throws when invoked
Throwers == {"g"}
\* two more callbacks, which return normally
QuietCallbacks == {"f", "h"}
Codes == {<<"c1">>}
Tables == {<<"t1">>}
\* scope arguments of subscribeTable: "" asks for every scope
Scopes == {<<"">>, <<"s1">>}
\* scopes carried by table_delta events
EventScopes == {<<"s1">>, <<"s2">>}
\* codeAction arguments of subscribeTrace: "c1::a1", and "c1", "c1::",
\* "::a1", "c1:a1" and "", which name no contract::action pair
GoodCodeActions == {<<"c1", "", "a1">>}
BadCodeActions ==
    {<<"c1">>, <<"c1", "", "">>, <<"", "", "a1">>, <<"c1", "a1">>, <<"">>}
CodeActions == GoodCodeActions \cup BadCodeActions
TraceNames == {<<"a1">>, <<"a2">>}

\* ------------------------------------------------------------ the object
Cur ==
    [opts |-> opts, isConnected |-> isConnected, isConnecting |-> isConnecting,
     retryCount |-> retryCount, socks |-> socks,
     reconnectTimers |-> reconnectTimers, heartbeatTimer |-> heartbeatTimer,
     heartbeats |-> heartbeats, pending |-> pending, timers |-> timers,
     queue |-> queue, tableSubs |-> tableSubs, traceSubs |-> traceSubs,
     settles |-> settles, dispatched |-> dispatched, clobbered |-> clobbered,
     out |-> <<>>, invoked |-> <<>>, threw |-> FALSE, overflow |-> FALSE]

\* The handler ends in state s; op names it and its arguments.
Commit(s, op) ==
    /\ ~s.overflow
    /\ opts' = s.opts
    /\ isConnected' = s.isConnected
    /\ isConnecting' = s.isConnecting
    /\ retryCount' = s.retryCount
    /\ socks' = s.socks
    /\ reconnectTimers' = s.reconnectTimers
    /\ heartbeatTimer' = s.heartbeatTimer
    /\ heartbeats' = s.heartbeats
    /\ pending' = s.pending
    /\ timers' = s.timers
    /\ queue' = s.queue
    /\ tableSubs' = s.tableSubs
    /\ traceSubs' = s.traceSubs
    /\ settles' = s.settles
    /\ dispatched' = s.dispatched
    /\ clobbered' = s.clobbered
    /\ received' = received \cup {s.out[k].request_id : k \in
                        {j \in 1..Len(s.out) : s.out[j].type = "call"
                                               /\ s.out[j].status = "sent"}}
    /\ last' = [op |-> op, out |-> s.out, invoked |-> s.invoked, threw |-> s.threw]

\* this.ws.send(JSON.stringify(frame)): throws on a CONNECTING socket, is
\* discarded without an exception on a CLOSING or CLOSED one.
wsSend(s, type, rid, params) ==
    IF s.threw THEN s
    ELSE IF Len(s.socks) = 0 THEN [s EXCEPT !.threw = TRUE]
    ELSE LET st == s.socks[Len(s.socks)] IN
         [s EXCEPT !.out = Append(@, [type |-> type, request_id |-> rid,
                                      params |-> params, sock |-> Len(s.socks),
                                      status |-> IF st = "open" THEN "sent"
                                                 ELSE IF st = "connecting" THEN "threw"
                                                 ELSE "dropped"]),
                   !.threw = (st = "connecting")]

connect(s) ==
    IF s.threw \/ s.isConnected \/ s.isConnecting THEN s
    ELSE IF Len(s.socks) >= MaxSockets THEN [s EXCEPT !.overflow = TRUE]
    ELSE [s EXCEPT !.isConnecting = TRUE, !.socks = Append(@, "connecting")]

\* attemptReconnect comparing with <= instead of <
attemptReconnect_OffByOne(s) ==
    IF s.threw THEN s
    ELSE IF s.retryCount <= s.opts.maxRetries
         THEN [s EXCEPT !.retryCount = @ + 1, !.reconnectTimers = @ + 1]
         ELSE s

attemptReconnect(s) ==
    IF s.threw THEN s
    ELSE IF s.retryCount < s.opts.maxRetries
         THEN [s EXCEPT !.retryCount = @ + 1, !.reconnectTimers = @ + 1]
         ELSE s

stopHeartbeat(s) ==
    IF s.threw THEN s
    ELSE IF s.heartbeatTimer
         THEN [s EXCEPT !.heartbeats = @ - 1, !.heartbeatTimer = FALSE]
         ELSE s

startHeartbeat(s) ==
    IF s.threw THEN s
    ELSE [stopHeartbeat(s) EXCEPT !.heartbeats = @ + 1, !.heartbeatTimer = TRUE]

sendToWs(s, id) ==
    IF s.threw THEN s
    ELSE wsSend([s EXCEPT !.timers[id] = @ + 1,
                          !.clobbered = @ \/ (id \in s.pending),
                          !.pending = @ \cup {id},
                          !.dispatched[id] = @ + 1],
                "call", id, <<>>)

\* processQueue reading the head of the queue without removing it
processQueue_NoShift(s) ==
    IF s.threw \/ Len(s.queue) = 0 \/ ~s.isConnected THEN s
    ELSE sendToWs(s, Head(s.queue))

RECURSIVE processQueue(_)
processQueue(s) ==
    IF s.threw \/ Len(s.queue) = 0 \/ ~s.isConnected THEN s
    ELSE processQueue(sendToWs([s EXCEPT !.queue = Tail(@)], Head(s.queue)))

\* const request_id = uuid(): the draws of one client are pairwise distinct
uuid == issued + 1

\* call queueing without the lazy connect()
call_NoConnect(s, id) ==
    IF s.isConnected
    THEN sendToWs(s, id)
    ELSE [s EXCEPT !.queue = Append(@, id)]

\* call starting the request timer when it puts the request into the queue
call_TimerAtEnqueue(s, id) ==
    IF s.isConnected
    THEN sendToWs(s, id)
    ELSE LET q == [s EXCEPT !.queue = Append(@, id), !.timers[id] = @ + 1] IN
         IF ~q.isConnecting THEN connect(q) ELSE q

call(s, id) ==
    IF s.isConnected
    THEN sendToWs(s, id)
    ELSE LET q == [s EXCEPT !.queue = Append(@, id)] IN
         IF ~q.isConnecting THEN connect(q) ELSE q

\* The executor of call()'s promise threw: the promise is rejected with it.
callPromise(s, id) ==
    LET r == call(s, id) IN
    IF r.threw THEN [r EXCEPT !.settles[id] = Append(@, "throw")] ELSE r

\* the timer callback rejecting without deleting the pending entry
requestTimeout_NoEvict(s, id) ==
    LET t == [s EXCEPT !.timers[id] = @ - 1] IN
    IF id \in t.pending
    THEN [t EXCEPT !.settles[id] = Append(@, "timeout")]
    ELSE t

\* the request timer of id fires
requestTimeout(s, id) ==
    LET t == [s EXCEPT !.timers[id] = @ - 1] IN
    IF id \in t.pending
    THEN [t EXCEPT !.pending = @ \ {id}, !.settles[id] = Append(@, "timeout")]
    ELSE t

\* ------------------------------------------------- subscription registry
\* Map.has / Map.get / Map.set / Map.delete on a Map kept in insertion order
Has(reg, key) == \E i \in 1..Len(reg) : reg[i].key = key

Get(reg, key) == reg[CHOOSE i \in 1..Len(reg) : reg[i].key = key].cbs

Put(reg, key, cbs) ==
    IF Has(reg, key)
    THEN [i \in 1..Len(reg) |-> IF reg[i].key = key THEN [key |-> key, cbs |-> cbs] ELSE reg[i]]
    ELSE Append(reg, [key |-> key, cbs |-> cbs])

Delete(reg, key) == SelectSeq(reg, LAMBDA e : e.key # key)

\* callbacks.indexOf(cb), 0 for -1
IndexOf(cbs, cb) ==
    IF \E i \in 1..Len(cbs) : cbs[i] = cb
    THEN CHOOSE i \in 1..Len(cbs) : cbs[i] = cb /\ \A j \in 1..(i - 1) : cbs[j] # cb
    ELSE 0

\* callbacks.splice(index, 1)
Splice(cbs, index) == SubSeq(cbs, 1, index - 1) \o SubSeq(cbs, index + 1, Len(cbs))

\* const scopeKey = scope || "*"
ScopeKey(scope) == IF scope = <<"">> \/ scope = <<>> THEN <<"*">> ELSE scope

\* `table:${code}:${table}:${scopeKey}`
TableKey(code, table, scopeKey) == <<"table">> \o code \o table \o scopeKey

\* `trace:${code}:${action}`
TraceKey(code, action) == <<"trace">> \o code \o action

\* str.split('::'): the parts of str, cut at each "::" from the left
RECURSIVE SplitColons(_)
SplitColons(str) ==
    LET idx == {i \in 2..(Len(str) - 1) : str[i] = ""} IN
    IF idx = {} THEN <<str>>
    ELSE LET i == CHOOSE k \in idx : \A j \in idx : k <= j IN
         <<SubSeq(str, 1, i - 1)>> \o SplitColons(SubSeq(str, i + 1, Len(str)))

\* element n of key.split(':') as a string, <<>> when there is none
Part(key, n) == IF n <= Len(key) THEN <<key[n]>> ELSE <<>>

RECURSIVE resubscribeTables(_, _)
resubscribeTables(s, n) ==
    IF s.threw \/ n > Len(s.tableSubs) THEN s
    ELSE LET key == s.tableSubs[n].key
             scope == Part(key, 4)
         IN resubscribeTables(
                wsSend(s, "subscribe_table", SubId,
                       <<Part(key, 2), Part(key, 3),
                         IF scope = <<"*">> THEN <<>> ELSE scope>>),
                n + 1)

RECURSIVE resubscribeTraces(_, _)
resubscribeTraces(s, n) ==
    IF s.threw \/ n > Len(s.traceSubs) THEN s
    ELSE LET key == s.traceSubs[n].key IN
         resubscribeTraces(
             wsSend(s, "subscribe_trace", SubId, <<Part(key, 2), Part(key, 3)>>),
             n + 1)

resubscribeAll(s) == resubscribeTraces(resubscribeTables(s, 1), 1)

\* callbacks.forEach(cb => cb(msg)): a callback that throws ends the loop
RECURSIVE forEach(_, _)
forEach(s, cbs) ==
    IF s.threw \/ Len(cbs) = 0 THEN s
    ELSE forEach([s EXCEPT !.invoked = Append(@, Head(cbs)),
                           !.threw = (Head(cbs) \in Throwers)],
                 Tail(cbs))

dispatchSubscription(s, msg) ==
    IF msg.type = "table_delta"
    THEN LET specificKey == TableKey(msg.code, msg.table, msg.scope)
             wildcardKey == TableKey(msg.code, msg.table, <<"*">>)
         IN forEach(s, (IF Has(s.tableSubs, specificKey)
                        THEN Get(s.tableSubs, specificKey) ELSE <<>>)
                       \o (IF Has(s.tableSubs, wildcardKey)
                           THEN Get(s.tableSubs, wildcardKey) ELSE <<>>))
    ELSE IF msg.type = "action_trace"
    THEN LET key == TraceKey(msg.account, msg.name) IN
         IF Has(s.traceSubs, key) THEN forEach(s, Get(s.traceSubs, key)) ELSE s
    ELSE s

\* handleMessage settling a response without looking the id up in pending
handleMessageTry_NoHas(s, msg) ==
    IF msg.type \in {"raw", "pong"} THEN s
    ELSE IF msg.type = "badjson" THEN [s EXCEPT !.threw = TRUE]
    ELSE IF msg.type \in {"table_delta", "action_trace"} THEN dispatchSubscription(s, msg)
    ELSE IF msg.request_id \in CallIds
    THEN LET id == msg.request_id
             r == [s EXCEPT !.timers[id] = IF @ > 0 THEN @ - 1 ELSE @, !.pending = @ \ {id}]
         IN IF msg.type = "error"
            THEN [r EXCEPT !.settles[id] = Append(@, "reject")]
            ELSE [r EXCEPT !.settles[id] = Append(@, "resolve")]
    ELSE s

\* handleMessage resolving every matched response, error or not
handleMessageTry_AlwaysResolve(s, msg) ==
    IF msg.type \in {"raw", "pong"} THEN s
    ELSE IF msg.type = "badjson" THEN [s EXCEPT !.threw = TRUE]
    ELSE IF msg.type \in {"table_delta", "action_trace"} THEN dispatchSubscription(s, msg)
    ELSE IF msg.request_id # NoId /\ msg.request_id \in s.pending
    THEN LET id == msg.request_id IN
         [s EXCEPT !.timers[id] = @ - 1, !.pending = @ \ {id},
                   !.settles[id] = Append(@, "resolve")]
    ELSE s

\* the body of handleMessage's try block
handleMessageTry(s, msg) ==
    IF msg.type = "raw" THEN s
    ELSE IF msg.type = "badjson" THEN [s EXCEPT !.threw = TRUE]
    ELSE IF msg.type = "pong" THEN s
    ELSE IF msg.type \in {"table_delta", "action_trace"} THEN dispatchSubscription(s, msg)
    ELSE IF msg.request_id # NoId /\ msg.request_id \in s.pending
    THEN LET id == msg.request_id
             r == [s EXCEPT !.timers[id] = @ - 1, !.pending = @ \ {id}]
         IN IF msg.type = "error"
            THEN [r EXCEPT !.settles[id] = Append(@, "reject")]
            ELSE [r EXCEPT !.settles[id] = Append(@, "resolve")]
    ELSE s

\* handleMessage without its try/catch
handleMessage_NoCatch(s, msg) == handleMessageTry(s, msg)

\* catch (e) { console.error(...) }: nothing escapes
handleMessage(s, msg) == [handleMessageTry(s, msg) EXCEPT !.threw = FALSE]

\* subscribeTable sending the subscribe frame on every registration
subscribeTable_AlwaysSends(s, code, scope, table, cb) ==
    LET key == TableKey(code, table, ScopeKey(scope))
        a == IF ~Has(s.tableSubs, key) THEN [s EXCEPT !.tableSubs = Put(@, key, <<>>)] ELSE s
        b == IF a.isConnected
             THEN wsSend(a, "subscribe_table", SubId, <<code, table, scope>>)
             ELSE a
        s1 == IF ~b.isConnected /\ ~b.isConnecting THEN connect(b) ELSE b
    IN IF s1.threw THEN s1
       ELSE [s1 EXCEPT !.tableSubs = Put(@, key, Append(Get(s1.tableSubs, key), cb))]

subscribeTable(s, code, scope, table, cb) ==
    LET key == TableKey(code, table, ScopeKey(scope))
        s1 == IF ~Has(s.tableSubs, key)
              THEN LET a == [s EXCEPT !.tableSubs = Put(@, key, <<>>)]
                       b == IF a.isConnected
                            THEN wsSend(a, "subscribe_table", SubId, <<code, table, scope>>)
                            ELSE a
                   IN IF ~b.isConnected /\ ~b.isConnecting THEN connect(b) ELSE b
              ELSE s
    IN IF s1.threw \/ ~Has(s1.tableSubs, key) THEN s1
       ELSE [s1 EXCEPT !.tableSubs = Put(@, key, Append(Get(s1.tableSubs, key), cb))]

\* the disposer sending unsubscribe without looking at isConnected
disposeTable_NoConnCheck(s, d) ==
    IF ~Has(s.tableSubs, d.key) THEN s
    ELSE LET cbs == Get(s.tableSubs, d.key)
             index == IndexOf(cbs, d.cb)
             left == IF index # 0 THEN Splice(cbs, index) ELSE cbs
         IN IF Len(left) = 0
            THEN wsSend([s EXCEPT !.tableSubs = Delete(@, d.key)],
                        "unsubscribe_table", SubId, d.params)
            ELSE [s EXCEPT !.tableSubs = Put(@, d.key, left)]

\* the closure subscribeTable returns, d its captured key, callback and arguments
disposeTable(s, d) ==
    IF ~Has(s.tableSubs, d.key) THEN s
    ELSE LET cbs == Get(s.tableSubs, d.key)
             index == IndexOf(cbs, d.cb)
             left == IF index # 0 THEN Splice(cbs, index) ELSE cbs
         IN IF Len(left) = 0
            THEN LET a == [s EXCEPT !.tableSubs = Delete(@, d.key)] IN
                 IF a.isConnected
                 THEN wsSend(a, "unsubscribe_table", SubId, d.params)
                 ELSE a
            ELSE [s EXCEPT !.tableSubs = Put(@, d.key, left)]

\* [code, action] = codeAction.split('::'), <<>> for undefined
TraceCode(codeAction) == SplitColons(codeAction)[1]

TraceAction(codeAction) ==
    IF Len(SplitColons(codeAction)) >= 2 THEN SplitColons(codeAction)[2] ELSE <<>>

\* !x for a string or undefined
Falsy(str) == str = <<>> \/ str = <<"">>

\* subscribeTrace without the check of the two parts
subscribeTrace_NoValidation(s, codeAction, cb) ==
    LET code == TraceCode(codeAction)
        action == TraceAction(codeAction)
        key == TraceKey(code, action)
        s1 == IF ~Has(s.traceSubs, key)
              THEN LET a == [s EXCEPT !.traceSubs = Put(@, key, <<>>)]
                       b == IF a.isConnected
                            THEN wsSend(a, "subscribe_trace", SubId, <<code, action>>)
                            ELSE a
                   IN IF ~b.isConnected /\ ~b.isConnecting THEN connect(b) ELSE b
              ELSE s
    IN IF s1.threw \/ ~Has(s1.traceSubs, key) THEN s1
       ELSE [s1 EXCEPT !.traceSubs = Put(@, key, Append(Get(s1.traceSubs, key), cb))]

subscribeTrace(s, codeAction, cb) ==
    LET code == TraceCode(codeAction)
        action == TraceAction(codeAction)
        key == TraceKey(code, action)
    IN IF Falsy(code) \/ Falsy(action) THEN [s EXCEPT !.threw = TRUE]
       ELSE LET s1 == IF ~Has(s.traceSubs, key)
                      THEN LET a == [s EXCEPT !.traceSubs = Put(@, key, <<>>)]
                               b == IF a.isConnected
                                    THEN wsSend(a, "subscribe_trace", SubId, <<code, action>>)
                                    ELSE a
                           IN IF ~b.isConnected /\ ~b.isConnecting THEN connect(b) ELSE b
                      ELSE s
            IN IF s1.threw \/ ~Has(s1.traceSubs, key) THEN s1
               ELSE [s1 EXCEPT !.traceSubs = Put(@, key, Append(Get(s1.traceSubs, key), cb))]

disposeTrace(s, d) ==
    IF ~Has(s.traceSubs, d.key) THEN s
    ELSE LET cbs == Get(s.traceSubs, d.key)
             index == IndexOf(cbs, d.cb)
             left == IF index # 0 THEN Splice(cbs, index) ELSE cbs
         IN IF Len(left) = 0
            THEN LET a == [s EXCEPT !.traceSubs = Delete(@, d.key)] IN
                 IF a.isConnected
                 THEN wsSend(a, "unsubscribe_trace", SubId, d.params)
                 ELSE a
            ELSE [s EXCEPT !.traceSubs = Put(@, d.key, left)]

\* ---------------------------------------------------------- socket events
\* ws.onopen leaving the retry counter as it is
onopen_NoReset(s, i) ==
    LET a == [s EXCEPT !.socks[i] = "open", !.isConnected = TRUE,
                       !.isConnecting = FALSE]
    IN startHeartbeat(processQueue(resubscribeAll(a)))

\* an onopen that leaves isConnecting as it finds it
onopen_KeepsConnecting(s, i) ==
    LET a == [s EXCEPT !.socks[i] = "open", !.isConnected = TRUE, !.retryCount = 0]
    IN startHeartbeat(processQueue(resubscribeAll(a)))

\* ws.onopen of socket i
onopen(s, i) ==
    LET a == [s EXCEPT !.socks[i] = "open", !.isConnected = TRUE,
                       !.isConnecting = FALSE, !.retryCount = 0]
    IN startHeartbeat(processQueue(resubscribeAll(a)))

\* an onclose that rejects every pending call and empties the queue
onclose_RejectsPending(s, i) ==
    LET a == stopHeartbeat([s EXCEPT !.socks[i] = "closed", !.isConnected = FALSE,
                                     !.isConnecting = FALSE, !.queue = <<>>,
                                     !.pending = {},
                                     !.settles = [id \in DOMAIN @ |->
                                         IF id \in s.pending
                                         THEN Append(@[id], "reject") ELSE @[id]]])
    IN IF a.opts.autoReconnect THEN attemptReconnect(a) ELSE a

\* an onclose that puts the pending calls back into the queue
onclose_Requeue(s, i) ==
    LET a == stopHeartbeat([s EXCEPT !.socks[i] = "closed", !.isConnected = FALSE,
                                     !.isConnecting = FALSE,
                                     !.queue = @ \o SelectSeq([k \in 1..MaxCalls |-> k],
                                                             LAMBDA id : id \in s.pending)])
    IN IF a.opts.autoReconnect THEN attemptReconnect(a) ELSE a

\* ws.onclose of socket i
onclose(s, i) ==
    LET a == stopHeartbeat([s EXCEPT !.socks[i] = "closed", !.isConnected = FALSE,
                                     !.isConnecting = FALSE])
    IN IF a.opts.autoReconnect THEN attemptReconnect(a) ELSE a

\* ws.onerror of socket i: the close event of the socket is still to come
onerror(s, i) == [s EXCEPT !.socks[i] = "failing", !.isConnecting = FALSE]

\* a tick that records its ping in the pending table under request id 1
heartbeatTick_Tracked(s) ==
    IF s.isConnected /\ Len(s.socks) > 0
    THEN wsSend([s EXCEPT !.pending = @ \cup {1}, !.timers[1] = @ + 1],
                "ping", NoId, <<>>)
    ELSE s

\* one tick of the setInterval of startHeartbeat
heartbeatTick(s) ==
    IF s.isConnected /\ Len(s.socks) > 0 THEN wsSend(s, "ping", NoId, <<>>) ELSE s

\* ------------------------------------------------------------------ Init
\* the options a client is constructed with; autoConnect decides whether the
\* constructor has already called connect()
Options == [autoReconnect : BOOLEAN, maxRetries : {MaxRetriesOpt}]

Init ==
    /\ opts \in Options
    /\ isConnected = FALSE
    /\ isConnecting \in BOOLEAN
    /\ retryCount = 0
    /\ socks = IF isConnecting THEN <<"connecting">> ELSE <<>>
    /\ reconnectTimers = 0
    /\ heartbeatTimer = FALSE
    /\ heartbeats = 0
    /\ pending = {}
    /\ timers = [id \in CallIds |-> 0]
    /\ queue = <<>>
    /\ tableSubs = <<>>
    /\ traceSubs = <<>>
    /\ disposers = <<>>
    /\ issued = 0
    /\ settles = [id \in CallIds |-> <<>>]
    /\ dispatched = [id \in CallIds |-> 0]
    /\ clobbered = FALSE
    /\ received = {}
    /\ last = [op |-> <<"new">>, out |-> <<>>, invoked |-> <<>>, threw |-> FALSE]

\* --------------------------------------------------------------- actions
Call ==
    /\ issued < MaxCalls
    /\ issued' = uuid
    /\ Commit(callPromise(Cur, uuid), <<"call", uuid>>)
    /\ UNCHANGED disposers

Connect ==
    /\ Commit(connect(Cur), <<"connect">>)
    /\ UNCHANGED <<disposers, issued>>

RequestTimeout(id) ==
    /\ timers[id] > 0
    /\ Commit(requestTimeout(Cur, id), <<"timeout", id>>)
    /\ UNCHANGED <<disposers, issued>>

SockOpen(i) ==
    /\ socks[i] = "connecting"
    /\ Commit(onopen(Cur, i), <<"open", i>>)
    /\ UNCHANGED <<disposers, issued>>

SockError(i) ==
    /\ socks[i] \in {"connecting", "open"}
    /\ Commit(onerror(Cur, i), <<"error", i>>)
    /\ UNCHANGED <<disposers, issued>>

SockClose(i) ==
    /\ socks[i] # "closed"
    /\ Commit(onclose(Cur, i), <<"close", i>>)
    /\ UNCHANGED <<disposers, issued>>

\* the reconnect timer fires: () => this.connect()
ReconnectTimer ==
    /\ reconnectTimers > 0
    /\ Commit(connect([Cur EXCEPT !.reconnectTimers = @ - 1]), <<"reconnect">>)
    /\ UNCHANGED <<disposers, issued>>

HeartbeatTick ==
    /\ heartbeats > 0
    /\ Commit(heartbeatTick(Cur), <<"tick">>)
    /\ UNCHANGED <<disposers, issued>>

\* the frames a server can deliver on an open socket
Responses ==
    [type : {"result", "error"}, request_id : CallIds \cup {SubId, NoId}]

TableDeltas ==
    [type : {"table_delta"}, code : Codes, table : Tables, scope : EventScopes]

ActionTraces ==
    [type : {"action_trace"}, account : Codes, name : TraceNames]

Controls == [type : {"raw", "badjson", "pong"}]

Message(i, msg) ==
    /\ socks[i] = "open"
    /\ Commit(handleMessage(Cur, msg), <<"message", msg>>)
    /\ UNCHANGED <<disposers, issued>>

SubscribeTable(code, scope, table, cb) ==
    /\ LET s == subscribeTable(Cur, code, scope, table, cb) IN
       /\ Commit(s, <<"subscribeTable", code, scope, table, cb>>)
       /\ disposers' = IF s.threw THEN disposers
                       ELSE Append(disposers,
                                   [kind |-> "table",
                                    key |-> TableKey(code, table, ScopeKey(scope)),
                                    cb |-> cb, params |-> <<code, table, scope>>,
                                    invoked |-> FALSE])
    /\ UNCHANGED issued

SubscribeTrace(codeAction, cb) ==
    /\ LET s == subscribeTrace(Cur, codeAction, cb) IN
       /\ Commit(s, <<"subscribeTrace", codeAction, cb>>)
       /\ disposers' = IF s.threw THEN disposers
                       ELSE Append(disposers,
                                   [kind |-> "trace",
                                    key |-> TraceKey(TraceCode(codeAction),
                                                     TraceAction(codeAction)),
                                    cb |-> cb,
                                    params |-> <<TraceCode(codeAction),
                                                 TraceAction(codeAction)>>,
                                    invoked |-> FALSE])
    /\ UNCHANGED issued

Dispose(n) ==
    /\ Commit(IF disposers[n].kind = "table"
              THEN disposeTable(Cur, disposers[n])
              ELSE disposeTrace(Cur, disposers[n]),
              <<"dispose", n>>)
    /\ disposers' = [disposers EXCEPT ![n].invoked = TRUE]
    /\ UNCHANGED issued

\* The class has no close method: a caller that wants the connection closed
\* calls close() on the socket the client holds in this.ws.  No handler runs
\* at that moment; the close event of the socket follows.
CloseSocket ==
    /\ Len(socks) > 0
    /\ socks[Len(socks)] \in {"connecting", "open"}
    /\ Commit([Cur EXCEPT !.socks[Len(socks)] = "closing"], <<"wsclose">>)
    /\ UNCHANGED <<disposers, issued>>

\* socket events and the reconnect timer
NetNext ==
    \/ \E i \in 1..Len(socks) : SockOpen(i)
    \/ \E i \in 1..Len(socks) : SockError(i)
    \/ \E i \in 1..Len(socks) : SockClose(i)
    \/ ReconnectTimer

\* a caller that only issues calls and connects
CallsNext ==
    \/ NetNext
    \/ Connect
    \/ HeartbeatTick
    \/ Call
    \/ \E id \in CallIds : RequestTimeout(id)
    \/ \E i \in 1..Len(socks) : \E msg \in Responses \cup Controls : Message(i, msg)

\* a caller that only subscribes and unsubscribes
SubsNext ==
    \/ NetNext
    \/ \E i \in 1..Len(socks) : \E msg \in TableDeltas \cup ActionTraces : Message(i, msg)
    \/ \E code \in Codes, scope \in Scopes, table \in Tables, cb \in Callbacks :
           Len(disposers) < MaxSubs /\ SubscribeTable(code, scope, table, cb)
    \/ \E codeAction \in GoodCodeActions, cb \in Callbacks :
           Len(disposers) < MaxSubs /\ SubscribeTrace(codeAction, cb)
    \/ \E n \in 1..Len(disposers) : Dispose(n)

\* a caller that issues calls and holds subscriptions to one trace topic
MixNext ==
    \/ NetNext
    \/ Call
    \/ \E id \in CallIds : RequestTimeout(id)
    \/ \E i \in 1..Len(socks) : \E msg \in Responses : Message(i, msg)
    \/ \E codeAction \in GoodCodeActions :
           Len(disposers) < MaxSubs /\ SubscribeTrace(codeAction, "f")
    \/ \E n \in 1..Len(disposers) : Dispose(n)

\* a caller that issues calls and closes the connection
CloseNext ==
    \/ NetNext
    \/ Call
    \/ \E id \in CallIds : RequestTimeout(id)
    \/ \E i \in 1..Len(socks) : \E msg \in Responses : Message(i, msg)
    \/ CloseSocket

\* a caller that registers up to MaxRegs callbacks, none of which throws,
\* for one table topic and runs each disposer at most once
OrderNext ==
    \/ \E i \in 1..Len(socks) : SockOpen(i)
    \/ \E cb \in QuietCallbacks :
           Len(disposers) < MaxRegs /\ SubscribeTable(<<"c1">>, <<"s1">>, <<"t1">>, cb)
    \/ \E n \in 1..Len(disposers) : ~disposers[n].invoked /\ Dispose(n)
    \/ \E i \in 1..Len(socks) : \E msg \in TableDeltas : Message(i, msg)

\* a caller that subscribes to traces with well-formed and ill-formed topics
TraceNext ==
    \/ NetNext
    \/ \E i \in 1..Len(socks) : \E msg \in ActionTraces : Message(i, msg)
    \/ \E codeAction \in CodeActions, cb \in Callbacks :
           Len(disposers) < MaxSubs /\ SubscribeTrace(codeAction, cb)
    \/ \E n \in 1..Len(disposers) : Dispose(n)

\* a caller that issues calls and subscribes to one trace topic, on a
\* connection whose heartbeat runs and whose server answers pings only
PingNext ==
    \/ NetNext
    \/ Call
    \/ HeartbeatTick
    \/ \E i \in 1..Len(socks) : Message(i, [type |-> "pong"])
    \/ \E codeAction \in GoodCodeActions, cb \in Callbacks :
           Len(disposers) < MaxSubs /\ SubscribeTrace(codeAction, cb)

\* The scenario of a call made while Disconnected: the first connection
\* attempt may fail, every later one succeeds and stays up, and the server
\* answers each request it has received before the request's timer runs out.
LiveOpen == \E i \in 1..Len(socks) : SockOpen(i)

LiveFail == Len(socks) >= 1 /\ socks[1] = "connecting" /\ SockError(1)

LiveClose == \E i \in 1..Len(socks) : socks[i] = "failing" /\ SockClose(i)

ServerAnswer ==
    \E i \in 1..Len(socks) : \E id \in received \cap pending :
        Message(i, [type |-> "result", request_id |-> id])

LiveTimeout == \E id \in CallIds \ received : RequestTimeout(id)

LiveNext ==
    \/ Call
    \/ LiveOpen
    \/ LiveFail
    \/ LiveClose
    \/ ReconnectTimer
    \/ ServerAnswer
    \/ LiveTimeout

\* every operation, every input
Next ==
    \/ CallsNext
    \/ CloseSocket
    \/ SubsNext
    \/ \E codeAction \in BadCodeActions, cb \in Callbacks :
           Len(disposers) < MaxSubs /\ SubscribeTrace(codeAction, cb)
    \/ OrderNext
    \/ TraceNext
    \/ LiveNext
    \/ PingNext

Spec == Init /\ [][Next]_vars
SpecCalls == Init /\ [][CallsNext]_vars
SpecSubs == Init /\ [][SubsNext]_vars
SpecMix == Init /\ [][MixNext]_vars
SpecClose == Init /\ [][CloseNext]_vars
SpecOrder == Init /\ [][OrderNext]_vars
SpecTrace == Init /\ [][TraceNext]_vars
SpecPing == Init /\ [][PingNext]_vars
\* LiveOpen is enabled exactly when some socket is connecting
CanOpen == \E i \in 1..Len(socks) : socks[i] = "connecting"

\* Socket events are delivered, timers fire and the server answers: weak
\* fairness of each; for LiveOpen it is written out, WF_vars(LiveOpen) being
\* []<>(~ENABLED <<LiveOpen>>_vars) \/ []<><<LiveOpen>>_vars.
SpecLive ==
    /\ Init /\ [][LiveNext]_vars
    /\ ([]<>(~CanOpen) \/ []<><<LiveOpen>>_vars)
    /\ WF_vars(LiveClose) /\ WF_vars(ReconnectTimer)
    /\ WF_vars(ServerAnswer) /\ WF_vars(LiveTimeout)

\* ------------------------------------------------------------ observation
\* name of the handler that ran last
LastOp == last.op[1]

\* the request ids of the call envelopes among the frames handed to ws.send
CallFrameIds(out) ==
    LET frames == SelectSeq(out, LAMBDA fr : fr.type = "call") IN
    [k \in 1..Len(frames) |-> frames[k].request_id]

\* how often x occurs in seq
Count(seq, x) == Cardinality({k \in 1..Len(seq) : seq[k] = x})

\* the callbacks registered under key, <<>> when the key has no entry
CallbacksOf(reg, key) == IF Has(reg, key) THEN Get(reg, key) ELSE <<>>

\* the topic key a subscribe frame asks for
FrameTopic(fr) ==
    IF fr.type = "subscribe_table"
    THEN TableKey(fr.params[1], fr.params[2], ScopeKey(fr.params[3]))
    ELSE TraceKey(fr.params[1], fr.params[2])

\* ----------------------------------------------------------------- claims

\* C1: every call is settled exactly once, by exactly one of a matching
\* success response, a matching error response or its request timer: the
\* continuations of a call are never invoked twice and never by anything else.
C1_SettledExactlyOnce ==
    \A id \in CallIds :
        settles[id] \in {<<>>, <<"resolve">>, <<"reject">>, <<"timeout">>}

\* C2: a call made while not Connected is appended to the queue, and the
\* socket open event hands the queued calls to the transport, all of them and
\* in the order in which they were enqueued.
C2_QueueDrainedFifo ==
    [][/\ (LastOp' = "call" /\ ~isConnected) => queue' = Append(queue, last'.op[2])
       /\ (LastOp' = "open") => /\ CallFrameIds(last'.out) = queue
                                /\ queue' = <<>>]_vars

RegistrationOk(reg, reg2, key, cb, type, params, lst) ==
    IF Has(reg, key)
    THEN /\ lst.out = <<>>
         /\ ~lst.threw
         /\ CallbacksOf(reg2, key) = Append(Get(reg, key), cb)
    ELSE /\ Len(lst.out) = (IF isConnected THEN 1 ELSE 0)
         /\ \A k \in 1..Len(lst.out) :
                /\ lst.out[k].type = type
                /\ lst.out[k].request_id = SubId
                /\ lst.out[k].params = params
         /\ ~lst.threw => CallbacksOf(reg2, key) = <<cb>>

\* Disposer d run on an entry that holds two or more callbacks: the entry
\* stays, without one occurrence of d's callback, and nothing is sent.
DisposeOneOfMany(reg, reg2, d, lst) ==
    (Has(reg, d.key) /\ Len(Get(reg, d.key)) >= 2)
    => /\ lst.out = <<>>
       /\ Has(reg2, d.key)
       /\ \A cb \in Callbacks :
              Count(CallbacksOf(reg2, d.key), cb)
                  = Count(Get(reg, d.key), cb)
                    - (IF cb = d.cb /\ Count(Get(reg, d.key), cb) > 0 THEN 1 ELSE 0)

\* C4: of two registrations for one topic key only the first hands a
\* subscribe frame to the transport (one frame, when Connected), the second
\* appends its callback and sends nothing; the disposer of one of several
\* callbacks leaves the entry with the others and sends no unsubscribe frame.
C4_OneSubscribePerTopic ==
    [][/\ LastOp' = "subscribeTable"
          => RegistrationOk(tableSubs, tableSubs',
                            TableKey(last'.op[2], last'.op[4], ScopeKey(last'.op[3])),
                            last'.op[5], "subscribe_table",
                            <<last'.op[2], last'.op[4], last'.op[3]>>, last')
       /\ LastOp' = "subscribeTrace"
          => RegistrationOk(traceSubs, traceSubs',
                            TraceKey(TraceCode(last'.op[2]), TraceAction(last'.op[2])),
                            last'.op[3], "subscribe_trace",
                            <<TraceCode(last'.op[2]), TraceAction(last'.op[2])>>, last')
       /\ LastOp' = "dispose"
          => IF disposers[last'.op[2]].kind = "table"
             THEN DisposeOneOfMany(tableSubs, tableSubs', disposers[last'.op[2]], last')
             ELSE DisposeOneOfMany(traceSubs, traceSubs', disposers[last'.op[2]], last')]_vars

\* while Connected, two callbacks were registered for one table topic and the
\* disposer of one of them has run: the entry holds the other, nothing was sent
C4_Witness ==
    /\ LastOp = "dispose"
    /\ last.out = <<>>
    /\ isConnected
    /\ Len(disposers) = 2
    /\ disposers[1].key = disposers[2].key
    /\ disposers[1].cb # disposers[2].cb
    /\ disposers[1].kind = "table"
    /\ CallbacksOf(tableSubs, disposers[1].key) = <<disposers[3 - last.op[2]].cb>>

\* Disposer d run on an entry that holds only d's callback: the entry is
\* deleted and one unsubscribe frame is sent when Connected, none otherwise.
DisposeLast(reg, reg2, d, type, lst) ==
    (Has(reg, d.key) /\ Get(reg, d.key) = <<d.cb>>)
    => /\ ~Has(reg2, d.key)
       /\ Len(lst.out) = (IF isConnected THEN 1 ELSE 0)
       /\ \A k \in 1..Len(lst.out) :
              /\ lst.out[k].type = type
              /\ lst.out[k].request_id = SubId
              /\ lst.out[k].params = d.params

\* C5: the disposer of the last callback of a topic deletes the entry and
\* sends exactly one unsubscribe frame if the client is Connected; if it is
\* not, the entry is deleted and no frame is sent, and none is sent later:
\* only a disposer that runs while Connected ever sends an unsubscribe frame.
C5_LastDisposerUnsubscribes ==
    [][/\ LastOp' = "dispose"
          => IF disposers[last'.op[2]].kind = "table"
             THEN DisposeLast(tableSubs, tableSubs', disposers[last'.op[2]],
                              "unsubscribe_table", last')
             ELSE DisposeLast(traceSubs, traceSubs', disposers[last'.op[2]],
                              "unsubscribe_trace", last')
       /\ \A k \in 1..Len(last'.out) :
              last'.out[k].type \in {"unsubscribe_table", "unsubscribe_trace"}
              => LastOp' = "dispose" /\ isConnected]_vars

\* the disposer of the only callback of a table topic ran while Connected: the
\* registry is empty and the unsubscribe frame went out on the open socket
C5_Witness ==
    /\ LastOp = "dispose"
    /\ Len(last.out) = 1
    /\ last.out[1].type = "unsubscribe_table"
    /\ last.out[1].status = "sent"
    /\ tableSubs = <<>>

\* the subscribe frames among out that ask for topic key
ReplaysOf(out, key) ==
    {k \in 1..Len(out) :
        out[k].type \in {"subscribe_table", "subscribe_trace"} /\ FrameTopic(out[k]) = key}

\* C6: on every socket open event each topic of the registry that has a
\* callback is replayed with exactly one subscribe frame, and every subscribe
\* frame of the replay is for a topic of the registry.
C6_ReplayEveryTopicOnce ==
    [][LastOp' = "open"
       => /\ \A n \in 1..Len(tableSubs) :
                 Len(tableSubs[n].cbs) >= 1
                 => Cardinality(ReplaysOf(last'.out, tableSubs[n].key)) = 1
          /\ \A n \in 1..Len(traceSubs) :
                 Len(traceSubs[n].cbs) >= 1
                 => Cardinality(ReplaysOf(last'.out, traceSubs[n].key)) = 1
          /\ \A k \in 1..Len(last'.out) :
                 last'.out[k].type \in {"subscribe_table", "subscribe_trace"}
                 => Has(tableSubs \o traceSubs, FrameTopic(last'.out[k]))]_vars

\* C7: a table_delta event for (code, table, scope) invokes exactly the
\* callbacks registered for that exact key and those registered for the
\* wildcard scope of (code, table), each once per registration, and no other.
C7_TableEventFanOut ==
    [][(LastOp' = "message" /\ last'.op[2].type = "table_delta")
       => LET msg == last'.op[2]
              exact == CallbacksOf(tableSubs, TableKey(msg.code, msg.table, msg.scope))
              wild == CallbacksOf(tableSubs, TableKey(msg.code, msg.table, <<"*">>))
          IN \A cb \in Callbacks :
                 Count(last'.invoked, cb) = Count(exact, cb) + Count(wild, cb)]_vars

\* C8: a response whose request id is not a key of the pending table is
\* dropped: no continuation is invoked, no exception escapes handleMessage,
\* nothing is sent, and the pending table, the timers, the queue, both
\* registries and the connection state are unchanged.
C8_UnmatchedResponseDropped ==
    [][(/\ LastOp' = "message"
        /\ last'.op[2].type \in {"result", "error"}
        /\ last'.op[2].request_id \notin pending)
       => /\ UNCHANGED <<pending, timers, queue, tableSubs, traceSubs, settles,
                         dispatched, isConnected, isConnecting, socks,
                         retryCount, reconnectTimers, heartbeats>>
          /\ ~last'.threw
          /\ last'.out = <<>>
          /\ last'.invoked = <<>>]_vars

\* the response for call 1 arrives after its timer evicted it, while a topic
\* is registered and call 2 is pending
C8_Witness ==
    /\ LastOp = "message"
    /\ last.op[2].request_id = 1
    /\ settles[1] = <<"timeout">>
    /\ pending = {2}
    /\ Len(traceSubs) > 0

\* C9: once the retry counter has reached maxRetries, a socket close event
\* starts no reconnect timer, creates no socket and leaves the client
\* Disconnected.
C9_NoReconnectAfterMaxRetries ==
    [][(LastOp' = "close" /\ retryCount >= opts.maxRetries)
       => /\ reconnectTimers' = reconnectTimers
          /\ retryCount' = retryCount
          /\ socks' = [socks EXCEPT ![last'.op[2]] = "closed"]
          /\ ~isConnected'
          /\ ~isConnecting']_vars

\* autoReconnect is on, the first socket and every retry have failed, and the
\* last close found the counter at maxRetries: nothing is scheduled
C9_Witness ==
    /\ LastOp = "close"
    /\ opts.autoReconnect
    /\ retryCount = opts.maxRetries
    /\ reconnectTimers = 0
    /\ Len(socks) = opts.maxRetries + 1
    /\ \A i \in 1..Len(socks) : socks[i] = "closed"
    /\ ~isConnected /\ ~isConnecting

\* reconnection has ceased: the counter is at maxRetries, no timer is left
\* and the client is Disconnected
Ceased ==
    /\ opts.autoReconnect
    /\ retryCount >= opts.maxRetries
    /\ reconnectTimers = 0
    /\ ~isConnected
    /\ ~isConnecting

C11_RetryCounter ==
    /\ [](retryCount \in 0..opts.maxRetries)
    /\ [][/\ LastOp' = "open" => retryCount' = 0
          /\ reconnectTimers' > reconnectTimers
             => /\ reconnectTimers' = reconnectTimers + 1
                /\ retryCount' = retryCount + 1
                /\ LastOp' = "close"
          /\ retryCount' # retryCount
             => \/ LastOp' = "open"
                \/ reconnectTimers' > reconnectTimers]_vars

\* socket 1 has closed, which counted one retry, and the open event of
\* socket 2 has put the counter back to zero
C11_Witness ==
    /\ LastOp = "open"
    /\ last.op[2] = 2
    /\ opts.autoReconnect
    /\ socks[1] = "closed"
    /\ Len(socks) = 2
    /\ retryCount = 0

\* C12: when the request timer of a call fires while the call is in the
\* pending table, the entry is evicted and the call's reject continuation is
\* invoked with the Timeout error, which is the call's outcome when its frame
\* was handed over without an exception; every other pending entry, every
\* other timer and call, the queue, the registries and the connection state
\* are unchanged and nothing is sent.  A live timer always finds its entry.
C12_TimeoutRejectsThatCallOnly ==
    [][LastOp' = "timeout"
       => LET id == last'.op[2] IN
          /\ id \in pending
          /\ pending' = pending \ {id}
          /\ settles' = [settles EXCEPT ![id] = Append(@, "timeout")]
          /\ "throw" \notin {settles[id][k] : k \in 1..Len(settles[id])}
             => settles'[id] = <<"timeout">>
          /\ timers' = [timers EXCEPT ![id] = @ - 1]
          /\ last'.out = <<>>
          /\ ~last'.threw
          /\ UNCHANGED <<queue, dispatched, isConnected, isConnecting, socks,
                         retryCount, reconnectTimers, heartbeats, heartbeatTimer,
                         tableSubs, traceSubs>>]_vars

\* calls 1 and 2 were pending on an open connection and the timer of call 1
\* has fired: call 1 is rejected with Timeout, call 2 is still pending
C12_Witness ==
    /\ last.op = <<"timeout", 1>>
    /\ settles[1] = <<"timeout">>
    /\ settles[2] = <<>>
    /\ pending = {2}
    /\ timers[2] = 1
    /\ isConnected

\* C13: a response whose request id is in the pending table invokes the
\* call's reject continuation, and not resolve, when its type is error, and
\* resolve, and not reject, otherwise; in both cases the call's timer is
\* cleared, so that it never fires, and the entry is removed from pending;
\* no other call is touched.
C13_ErrorResponseRejects ==
    [][(/\ LastOp' = "message"
        /\ last'.op[2].type \in {"result", "error"}
        /\ last'.op[2].request_id \in pending)
       => LET id == last'.op[2].request_id IN
          /\ settles' = [settles EXCEPT ![id] =
                            Append(@, IF last'.op[2].type = "error"
                                      THEN "reject" ELSE "resolve")]
          /\ pending' = pending \ {id}
          /\ timers' = [timers EXCEPT ![id] = 0]
          /\ ~last'.threw]_vars

\* call 1 got an error response and is rejected, call 2 got a result and is
\* resolved; no entry and no timer is left
C13_Witness ==
    /\ LastOp = "message"
    /\ settles[1] = <<"reject">>
    /\ settles[2] = <<"resolve">>
    /\ pending = {}
    /\ \A id \in CallIds : timers[id] = 0

\* the handler that ran last is the close event of a socket that the caller
\* had closed
DeliberateClose == LastOp' = "close" /\ socks[last'.op[2]] = "closing"

\* C14: the close event that follows a caller-initiated close starts no
\* reconnect timer, does not count a retry and creates no socket, also with
\* autoReconnect on and retries left.
C14_DeliberateCloseNoReconnect ==
    [][DeliberateClose
       => /\ reconnectTimers' = reconnectTimers
          /\ retryCount' = retryCount
          /\ socks' = [socks EXCEPT ![last'.op[2]] = "closed"]]_vars

\* C15: when the caller has closed the connection, by the close event every
\* call that was pending or queued has had its reject continuation invoked,
\* the pending table and the queue are empty, and no reconnect timer has been
\* started.
C15_TeardownRejectsAll ==
    [][DeliberateClose
       => /\ pending' = {}
          /\ queue' = <<>>
          /\ \A id \in pending \cup {queue[k] : k \in 1..Len(queue)} :
                 Len(settles'[id]) = Len(settles[id]) + 1
          /\ reconnectTimers' = reconnectTimers]_vars

\* the socket held in this.ws is opening or open: the client is Connecting
\* or Connected
AttemptLive == Len(socks) > 0 /\ socks[Len(socks)] \in {"connecting", "open"}

\* C16: while the client's socket is opening or open, no operation creates
\* a socket, whether connect is invoked by the caller, by call, by a
\* subscribe operation or by the reconnect timer; the connect invocations of
\* the caller and of the timer change nothing at all.
C16_ConnectWhileConnectingNoOp ==
    [][AttemptLive
       => /\ Len(socks') = Len(socks)
          /\ LastOp' \in {"connect", "reconnect"}
             => UNCHANGED <<isConnected, isConnecting, retryCount, socks,
                            heartbeats, heartbeatTimer, pending, timers, queue,
                            tableSubs, traceSubs, settles, dispatched>>]_vars

\* A registration of cb for the new topic key made while not Connected: the
\* entry is created with the callback and nothing is handed to the socket.
OfflineRegistrationOk(reg, reg2, key, cb, lst) ==
    (~isConnected /\ ~Has(reg, key))
    => /\ lst.out = <<>>
       /\ ~lst.threw
       /\ CallbacksOf(reg2, key) = <<cb>>

\* C17: a registration for a new topic made while the client is not
\* Connected creates the registry entry with the callback and sends nothing;
\* the socket open event that makes the client Connected sends, for each
\* topic that waits in the registry, exactly one subscribe frame, on the
\* socket that has opened.
C17_OfflineSubscribeReplayedOnce ==
    [][/\ LastOp' = "subscribeTable"
          => OfflineRegistrationOk(tableSubs, tableSubs',
                 TableKey(last'.op[2], last'.op[4], ScopeKey(last'.op[3])),
                 last'.op[5], last')
       /\ LastOp' = "subscribeTrace"
          => OfflineRegistrationOk(traceSubs, traceSubs',
                 TraceKey(TraceCode(last'.op[2]), TraceAction(last'.op[2])),
                 last'.op[3], last')
       /\ (LastOp' = "open" /\ ~isConnected)
          => \A n \in 1..Len(tableSubs \o traceSubs) :
                 LET e == (tableSubs \o traceSubs)[n] IN
                 Len(e.cbs) >= 1
                 => /\ Cardinality(ReplaysOf(last'.out, e.key)) = 1
                    /\ \A k \in ReplaysOf(last'.out, e.key) :
                           last'.out[k].sock = last'.op[2]]_vars

\* C18: between operations no key of tableSubs or traceSubs has an empty
\* callback list.
C18_NoEmptyTopic ==
    /\ \A n \in 1..Len(tableSubs) : Len(tableSubs[n].cbs) >= 1
    /\ \A n \in 1..Len(traceSubs) : Len(traceSubs[n].cbs) >= 1

\* every key of reg other than key has the same callbacks in reg2
OthersKept(reg, reg2, key) ==
    \A n \in 1..Len(reg) :
        reg[n].key # key => CallbacksOf(reg2, reg[n].key) = reg[n].cbs

\* Disposer d run on registry reg: the first run takes one occurrence of d's
\* callback out of d's topic and nothing else, a later run changes nothing
\* and sends nothing.
DisposesOwnOnly(reg, reg2, d, lst) ==
    IF d.invoked
    THEN reg2 = reg /\ lst.out = <<>>
    ELSE /\ OthersKept(reg, reg2, d.key)
         /\ \A cb \in Callbacks :
                Count(CallbacksOf(reg2, d.key), cb)
                    = Count(CallbacksOf(reg, d.key), cb)
                      - (IF cb = d.cb /\ Count(CallbacksOf(reg, d.key), cb) > 0
                         THEN 1 ELSE 0)

\* C19: a disposer removes the one registration it was returned for and no
\* other; run again, it changes neither registry and sends nothing, also
\* when its callback is registered a second time for the topic or the topic
\* was deleted and created again.
C19_DisposerRemovesOwnRegistration ==
    [][LastOp' = "dispose"
       => LET d == disposers[last'.op[2]] IN
          IF d.kind = "table"
          THEN /\ DisposesOwnOnly(tableSubs, tableSubs', d, last')
               /\ traceSubs' = traceSubs
          ELSE /\ DisposesOwnOnly(traceSubs, traceSubs', d, last')
               /\ tableSubs' = tableSubs]_vars

\* the callbacks of the registrations for key whose disposer has not run, in
\* the order in which the registrations were made
LiveCallbacks(key) ==
    LET ds == SelectSeq(disposers, LAMBDA d : d.key = key /\ ~d.invoked)
    IN [k \in 1..Len(ds) |-> ds[k].cb]

\* C20: a push event invokes the callbacks of the registrations that are in
\* force for its topic key in the order in which they were registered, each
\* once per registration (for a table event the exact key's registrations,
\* then the wildcard key's, as dispatchSubscription concatenates them).
C20_DispatchInsertionOrder ==
    [][/\ (LastOp' = "message" /\ last'.op[2].type = "table_delta")
          => LET msg == last'.op[2] IN
             last'.invoked
                 = LiveCallbacks(TableKey(msg.code, msg.table, msg.scope))
                   \o LiveCallbacks(TableKey(msg.code, msg.table, <<"*">>))
       /\ (LastOp' = "message" /\ last'.op[2].type = "action_trace")
          => LET msg == last'.op[2] IN
             last'.invoked = LiveCallbacks(TraceKey(msg.account, msg.name))]_vars

\* the callbacks dispatchSubscription collects for msg from the registries
FanOut(msg) ==
    IF msg.type = "table_delta"
    THEN CallbacksOf(tableSubs, TableKey(msg.code, msg.table, msg.scope))
         \o CallbacksOf(tableSubs, TableKey(msg.code, msg.table, <<"*">>))
    ELSE CallbacksOf(traceSubs, TraceKey(msg.account, msg.name))

\* C21: when a callback of the fan-out of a push event throws, the callbacks
\* that come after it in the fan-out are invoked all the same: the event
\* invokes the whole fan-out.
C21_ThrowingCallbackDoesNotStopFanOut ==
    [][(/\ LastOp' = "message"
        /\ last'.op[2].type \in {"table_delta", "action_trace"}
        /\ \E k \in 1..Len(FanOut(last'.op[2])) : FanOut(last'.op[2])[k] \in Throwers)
       => last'.invoked = FanOut(last'.op[2])]_vars

\* C22: subscribeTrace with a topic that names no contract or no action
\* throws at once: nothing is handed to the socket, no socket is created, no
\* disposer is returned and no field of the client changes.
C22_BadTraceTopicRejected ==
    [][(LastOp' = "subscribeTrace" /\ last'.op[2] \in BadCodeActions)
       => /\ last'.threw
          /\ last'.out = <<>>
          /\ UNCHANGED <<tableSubs, traceSubs, disposers, socks, isConnected,
                         isConnecting, retryCount, reconnectTimers, pending,
                         timers, queue, heartbeats>>]_vars

\* a fresh client without a socket was asked to subscribe to an ill-formed
\* topic: the call threw, there is still no socket and no registry entry
C22_Witness ==
    /\ LastOp = "subscribeTrace"
    /\ last.op[2] \in BadCodeActions
    /\ last.threw
    /\ socks = <<>>
    /\ ~isConnecting
    /\ traceSubs = <<>>
    /\ disposers = <<>>

\* inbound frames that do not parse (text that is no JSON object or array,
\* JSON that makes the handler throw) or that have no known type and no
\* request id
Malformed(msg) ==
    \/ msg.type \in {"raw", "badjson"}
    \/ msg.type \in {"result", "error"} /\ msg.request_id = NoId

\* C23: a malformed inbound frame is dropped: no exception leaves
\* handleMessage, no callback and no continuation is invoked, nothing is
\* sent, and the pending table, the timers, the queue, the registries and
\* the connection state are as before, so that later frames meet the same
\* client.
C23_MalformedFrameDropped ==
    [][(LastOp' = "message" /\ Malformed(last'.op[2]))
       => /\ ~last'.threw
          /\ last'.invoked = <<>>
          /\ last'.out = <<>>
          /\ UNCHANGED <<pending, timers, queue, settles, dispatched, tableSubs,
                         traceSubs, disposers, socks, isConnected, isConnecting,
                         retryCount, reconnectTimers, heartbeats,
                         heartbeatTimer>>]_vars

\* a frame that is no JSON arrived while call 1 was pending and call 2 had
\* been resolved: call 1 is still pending with its timer
C23_Witness ==
    /\ LastOp = "message"
    /\ last.op[2].type = "badjson"
    /\ ~last.threw
    /\ pending = {1}
    /\ timers[1] = 1
    /\ settles[2] = <<"resolve">>

\* the client is Disconnected for good: no socket is opening or about to
\* deliver its close event and no reconnect timer is running
GaveUp ==
    /\ ~isConnected
    /\ reconnectTimers = 0
    /\ \A i \in 1..Len(socks) : socks[i] \notin {"connecting", "failing"}

\* C24: a call that is put into the queue is eventually resolved with the
\* server's result, unless the client does not connect again.
C24_QueuedCallEventuallyResolves ==
    \A id \in CallIds :
        (Count(queue, id) > 0) ~> (settles[id] = <<"resolve">> \/ GaveUp)

\* C25: the socket open event resets the retry counter and sends the queued
\* calls before the replayed subscriptions: among the frames it hands to the
\* socket every call envelope comes before every subscribe frame.
C25_DrainBeforeReplay ==
    [][LastOp' = "open"
       => /\ retryCount' = 0
          /\ \A j, k \in 1..Len(last'.out) :
                 (/\ last'.out[j].type = "call"
                  /\ last'.out[k].type \in {"subscribe_table", "subscribe_trace"})
                 => j < k]_vars

\* the sockets that have not delivered their close event
Unclosed == {i \in 1..Len(socks) : socks[i] # "closed"}

\* C26: at most one socket of the client has not yet delivered its close
\* event, so at most one is opening or open and none is created while an
\* earlier one is still to close; and the close event of a socket that is no
\* longer this.ws leaves the connection state, the retry counter and the
\* timers of the newer socket alone.
C26_OneLiveSocket ==
    /\ [](Cardinality(Unclosed) <= 1)
    /\ [][(LastOp' = "close" /\ last'.op[2] < Len(socks))
          => UNCHANGED <<isConnected, isConnecting, retryCount, reconnectTimers,
                         heartbeats, heartbeatTimer>>]_vars

\* C27: every frame a handler hands to ws.send goes to a socket that is open
\* at that moment, never to one that is still connecting, closing or closed,
\* and the client is Connected when the handler ends.
C27_SendsOnlyOnOpenSocket ==
    [][\A k \in 1..Len(last'.out) :
           /\ last'.out[k].status = "sent"
           /\ isConnected']_vars

\* C28: at most one heartbeat interval is running, none is running while the
\* client is not Connected, one is running whenever it is Connected, and a
\* tick hands a ping to the socket only if the client is Connected.
C28_HeartbeatFollowsConnection ==
    /\ [](/\ heartbeats <= 1
          /\ ~isConnected => heartbeats = 0
          /\ isConnected => heartbeats = 1)
    /\ [][LastOp' = "tick"
          => Len(last'.out) = (IF isConnected THEN 1 ELSE 0)]_vars

\* C29: a heartbeat tick hands nothing but ping frames without a request id
\* to the socket and changes neither the pending table nor the request timers
\* nor the queue; an inbound pong changes neither the pending table nor the
\* request timers nor the queue nor the registries, invokes no callback, sends
\* nothing and throws nothing.
C29_PingFireAndForget ==
    [][/\ LastOp' = "tick"
          => /\ UNCHANGED <<pending, timers, queue, settles, dispatched>>
             /\ \A k \in 1..Len(last'.out) :
                    last'.out[k].type = "ping" /\ last'.out[k].request_id = NoId
       /\ (LastOp' = "message" /\ last'.op[2].type = "pong")
          => /\ UNCHANGED <<pending, timers, queue, tableSubs, traceSubs,
                            settles, dispatched>>
             /\ last'.invoked = <<>>
             /\ last'.out = <<>>
             /\ ~last'.threw]_vars

\* a ping has reached the server while a call is pending and a callback is
\* registered
C29_Witness ==
    /\ LastOp = "tick"
    /\ Len(last.out) = 1 /\ last.out[1].status = "sent"
    /\ pending # {}
    /\ Len(traceSubs) > 0

\* C30: the error event and the close event of a socket change neither the
\* queue nor the pending table nor the request timers and settle no call; a
\* call leaves the pending table only through a response or its own timeout.
C30_ClosureKeepsQueueAndPending ==
    [][/\ LastOp' \in {"error", "close"}
          => UNCHANGED <<queue, pending, timers, settles, dispatched>>
       /\ (\E id \in pending : id \notin pending')
          => LastOp' \in {"timeout", "message"}]_vars

\* the connection has closed under a pending call, which was later ended by
\* its own timeout while the client was still not Connected
C30_Witness ==
    /\ LastOp = "timeout"
    /\ settles[last.op[2]] = <<"timeout">>
    /\ ~isConnected
    /\ \E i \in 1..Len(socks) : socks[i] = "closed"

\* C31: isConnected and isConnecting are never both true.
C31_OneSessionState == ~(isConnected /\ isConnecting)

\* a socket has opened while a later socket of the client is still connecting
C31_Witness ==
    /\ LastOp = "open"
    /\ isConnected
    /\ \E i \in 1..Len(socks) : socks[i] = "connecting"

\* the parameters with which the topic key was registered, as recorded with
\* its disposers
RegisteredWith(key, params) ==
    \A n \in 1..Len(disposers) : disposers[n].key = key => disposers[n].params = params

\* C32: every subscribe frame that the socket open event replays carries the
\* parameters with which its topic was registered: the k-th subscribe_table
\* frame those of the k-th table topic, the k-th subscribe_trace frame those
\* of the k-th trace topic.
C32_ReplaySameAsFirstSubscribe ==
    [][LastOp' = "open"
       => LET out == last'.out
              tables == SelectSeq(out, LAMBDA fr : fr.type = "subscribe_table")
              traces == SelectSeq(out, LAMBDA fr : fr.type = "subscribe_trace")
          IN /\ \A k \in 1..Len(tables) :
                    RegisteredWith(tableSubs[k].key, tables[k].params)
             /\ \A k \in 1..Len(traces) :
                    RegisteredWith(traceSubs[k].key, traces[k].params)]_vars

\* C33: no call is handed to sendToWs more than once, none is in the queue
\* more than once, none is in the queue and in the pending table at the same
\* time, and a call that has been handed to sendToWs is never in the queue;
\* no handler hands the envelope of a call that is already pending to the
\* socket.
C33_EnvelopeSentAtMostOnce ==
    /\ [](\A id \in CallIds :
            /\ dispatched[id] <= 1
            /\ Count(queue, id) <= 1
            /\ ~(Count(queue, id) > 0 /\ id \in pending)
            /\ ~(Count(queue, id) > 0 /\ dispatched[id] > 0))
    /\ [][\A id \in pending : Count(CallFrameIds(last'.out), id) = 0]_vars

\* a socket has opened after the connection dropped under a pending call
C33_Witness ==
    /\ LastOp = "open"
    /\ last.op[2] >= 2
    /\ socks[1] = "closed"
    /\ pending # {}
    /\ \E id \in pending : id \in received /\ Count(CallFrameIds(last.out), id) = 0

\* C34: a call that is in the queue has no request timer and is unsettled;
\* only a socket open event takes a call out of the queue; and a request
\* timer is started only by a handler that hands the call's envelope to the
\* socket.
C34_DeadlineStartsAtDispatch ==
    /\ [](\A id \in CallIds :
            Count(queue, id) > 0 => timers[id] = 0 /\ settles[id] = <<>>)
    /\ [][\A id \in CallIds :
            /\ (Count(queue, id) > 0 /\ Count(queue', id) = 0) => LastOp' = "open"
            /\ timers'[id] > timers[id]
               => Count(CallFrameIds(last'.out), id) = 1]_vars

\* a call waits in the queue of a client that is Disconnected for good
C34_Witness ==
    /\ Len(queue) > 0
    /\ GaveUp
    /\ LastOp = "close"
====
